---- MODULE Spec2Model ----
(***************************************************************************)
(* Decision core of the voice-evolution system:                            *)
(*   scripts/confidence_engine.py       compute_confidence                 *)
(*   scripts/hybrid_playback_decider.py decide_playback_mode               *)
(*                                                                         *)
(* Real numbers are fixed-point integers: Scale units make 1.0.  The input *)
(* grids of the confidence engine are chosen so that the exact weighted    *)
(* sum never lies halfway between two thousandths, where the binary        *)
(* representation error of a Python float would decide the rounding; on    *)
(* these grids the fixed-point result is the float result.                 *)
(***************************************************************************)
EXTENDS Integers, Sequences, FiniteSets, TLC

VARIABLES
    \* ---- confidence engine: one call ----
    cargs,          \* the five arguments of compute_confidence
    cpc,            \* "call" before the call, "done" after it
    cres,           \* outcome of the call
    \* ---- playback decider: environment it reads ----
    versions,       \* registry: the user's voice_versions, oldest first
    date_of_birth,  \* registry: user.data["date_of_birth"]
    selector_mode,  \* verdict of the version-selection collaborator
    emb_file,       \* content of the file at the latest version's embedding_path
    deltas_file,    \* content of embeddings/age_deltas.npy
    \* ---- playback decider: invocations ----
    inv             \* inv[p]: position and locals of invocation p

vars == <<cargs, cpc, cres, versions, date_of_birth, selector_mode,
          emb_file, deltas_file, inv>>

envVars == <<versions, date_of_birth, selector_mode, emb_file, deltas_file>>

confVars == <<cargs, cpc, cres>>

----------------------------------------------------------------------------
(* Bounds of the model *)

MaxDurStep == 6
MaxHistory == 4
MaxVersions == 2
MaxDim == 2

----------------------------------------------------------------------------
(* Values *)

Scale == 100 * 100

None == [t |-> "none", v |-> 0]
Text == [t |-> "str", v |-> 0]
Num(n) == [t |-> "num", v |-> n]

IsNum(x) == x.t = "num"

Min(a, b) == IF a < b THEN a ELSE b
Max(a, b) == IF a > b THEN a ELSE b
Abs(a) == IF a < 0 THEN -a ELSE a

----------------------------------------------------------------------------
(* scripts/confidence_engine.py *)

\* clamp(x, lo, hi) = max(lo, min(x, hi)); every caller uses lo=0.0, hi=1.0
clamp(x, lo, hi) == Max(lo, Min(x, hi))

\* _safe_float crediting a missing value with full trust
_safe_float_full(x, default) ==
    IF x.t = "none" THEN Scale
    ELSE IF x.t = "str" THEN default
    ELSE x.v

\* _safe_float(x, default): None -> default; float(x) raising TypeError or
\* ValueError (a non-numeric string) -> default; otherwise the number.
_safe_float(x, default) ==
    IF x.t = "none" THEN default
    ELSE IF x.t = "str" THEN default
    ELSE x.v

\* duration_score = clamp((duration_s - 8.0) / 20.0); duration_s in Scale units
duration_score(duration_s) == clamp((duration_s.v - 8 * Scale) \div 20, 0, Scale)

\* the SNR ladder; snr_db in Scale units of a dB
snr_score(snr_db) ==
    IF snr_db.t = "none" THEN 4000
    ELSE IF snr_db.v <= 0 THEN 3000
    ELSE IF snr_db.v < 10 * Scale THEN 3000 + ((snr_db.v \div 10) * 4) \div 10
    ELSE 7000

speaker_score(speaker_similarity) == clamp(_safe_float(speaker_similarity, 0), 0, Scale)

device_score(device_match) == clamp(_safe_float(device_match, 0), 0, Scale)

\* the history ladder with the rungs for 1 and 2 exchanged
history_score_swapped(history_count) ==
    IF history_count.v >= 3 THEN 10000
    ELSE IF history_count.v = 2 THEN 4000
    ELSE IF history_count.v = 1 THEN 7000
    ELSE 2000

history_score(history_count) ==
    IF history_count.v >= 3 THEN 10000
    ELSE IF history_count.v = 2 THEN 7000
    ELSE IF history_count.v = 1 THEN 4000
    ELSE 2000

W_speaker == 30
W_duration == 20
W_snr == 15
W_device == 15
W_history == 20

\* the weighted sum, in units of 1/(100*Scale)
weighted_sum(a) ==
      W_speaker * speaker_score(a.speaker_similarity)
    + W_duration * duration_score(a.duration_s)
    + W_snr * snr_score(a.snr_db)
    + W_device * device_score(a.device_match)
    + W_history * history_score(a.history_count)

\* truncation to 3 decimals instead of rounding
round3_truncate(x) == x \div 1000

\* round(x, 3) of x given in units of 1/(100*Scale); the result in thousandths.
\* Python rounds the decimal value to the nearest thousandth, an exact tie to
\* the even one.
round3(x) ==
    LET q == x \div 1000
        r == x % 1000
    IN  IF r > 500 THEN q + 1
        ELSE IF r < 500 THEN q
        ELSE IF q % 2 = 0 THEN q ELSE q + 1

\* The value compute_confidence returns for arguments that do not raise,
\* in thousandths.
confidence_value(a) == round3(clamp(weighted_sum(a), 0, 100 * Scale))

\* The first statement of compute_confidence that raises TypeError, in the
\* order the function evaluates: duration_s - 8.0, snr_db <= 0,
\* history_count >= 3.  speaker_similarity and device_match go through
\* _safe_float and never raise.
confidence_raises(a) ==
    \/ a.duration_s.t # "num"
    \/ a.snr_db.t = "str"
    \/ a.history_count.t # "num"

compute_confidence(a) ==
    IF confidence_raises(a)
    THEN [status |-> "raised", exc |-> "TypeError", value |-> 0]
    ELSE [status |-> "ok", exc |-> "", value |-> confidence_value(a)]

----------------------------------------------------------------------------
(* Inputs of the confidence engine *)

DurationValues == {Num(6 * i * Scale) : i \in 0..MaxDurStep} \cup {None, Text}

SnrValues ==
    {Num(n) : n \in {-50000, 0, 1000, 33000, 50000, 99000, 100000, 200000}}
        \cup {None, Text}

SimilarityValues ==
    {Num(n) : n \in {-2000, 0, 4900, 5000, 7500, 10000, 13000}} \cup {None, Text}

DeviceValues ==
    {Num(n) : n \in {-1000, 0, 5000, 7000, 10000, 12000}} \cup {None, Text}

HistoryValues == {Num(n) : n \in (-1)..MaxHistory} \cup {None, Text}

ConfidenceInputs ==
    [duration_s : DurationValues, snr_db : SnrValues,
     speaker_similarity : SimilarityValues, device_match : DeviceValues,
     history_count : HistoryValues]

NoOutcome == [status |-> "pending", exc |-> "", value |-> 0]

\* one call of compute_confidence
ComputeConfidence ==
    /\ cpc = "call"
    /\ cres' = compute_confidence(cargs)
    /\ cpc' = "done"
    /\ UNCHANGED <<cargs, envVars, inv>>

----------------------------------------------------------------------------
(* scripts/hybrid_playback_decider.py: values the decider reads *)

NoDate == [t |-> "none", y |-> 0, m |-> 0, d |-> 0]
BadDate == [t |-> "bad", y |-> 0, m |-> 0, d |-> 0]
Date(y, m, d) == [t |-> "ok", y |-> y, m |-> m, d |-> d]

NoPath == "<None>"
EmbPath == "versions/embeddings/v.npy"

\* a file holding an array: its shape (<<>> is a 0-d array)
Array(shape) == [t |-> "array", shape |-> shape]
Absent == [t |-> "absent", shape |-> <<>>]
Corrupt == [t |-> "corrupt", shape |-> <<>>]

DeltaKeys == {"children_to_adult", "adult_to_children"}

NoVersion ==
    [id |-> 0, embedding_path |-> NoPath, age_at_recording |-> None,
     recorded_utc |-> NoDate]

\* _parse_recorded_date: a missing or empty string, or one fromisoformat
\* rejects, gives None; otherwise the datetime (its date is what is used).
_parse_recorded_date(recorded_utc) ==
    IF recorded_utc.t = "none" THEN NoDate
    ELSE IF recorded_utc.t = "bad" THEN NoDate
    ELSE recorded_utc

\* (a1, a2) < (b1, b2) on Python tuples
TupleLess(a1, a2, b1, b2) == a1 < b1 \/ (a1 = b1 /\ a2 < b2)

\* _calculate_age without the birthday-not-yet-reached adjustment
_calculate_age_no_adjust(dob, recorded_dt) ==
    IF dob.t = "none" \/ recorded_dt.t = "none" THEN None
    ELSE IF dob.t = "bad" THEN None
    ELSE LET age == recorded_dt.y - dob.y
         IN  IF age < 0 \/ age > 120 THEN None ELSE Num(age)

\* _calculate_age(dob, recorded_dt)
_calculate_age(dob, recorded_dt) ==
    IF dob.t = "none" \/ recorded_dt.t = "none" THEN None
    ELSE IF dob.t = "bad" THEN None
    ELSE LET age0 == recorded_dt.y - dob.y
             age == IF TupleLess(recorded_dt.m, recorded_dt.d, dob.m, dob.d)
                    THEN age0 - 1 ELSE age0
         IN  IF age < 0 \/ age > 120 THEN None ELSE Num(age)

\* _load_age_deltas(): None when the file is absent, when np.load or .item()
\* or np.asarray raises, or when the object is not a dict; otherwise the dict.
NoDeltas == [t |-> "none", d |-> [k \in {} |-> <<>>]]

_load_age_deltas ==
    IF deltas_file.t = "absent" THEN NoDeltas
    ELSE IF deltas_file.t = "corrupt" THEN NoDeltas
    ELSE IF deltas_file.t = "notdict" THEN NoDeltas
    ELSE [t |-> "dict", d |-> deltas_file.d]

\* registry collaborator: UserRegistry.get_versions()
get_versions == versions

\* registry collaborator: UserRegistry.get_latest_version()
get_latest_version ==
    IF versions = <<>> THEN NoVersion ELSE versions[Len(versions)]

\* version-selection collaborator: select_best_version(versions, target_age).
\* Its closeness policy is its own; its verdict is selector_mode.
select_best_version(vs, target_age) ==
    LET v == vs[Len(vs)]
    IN  [mode |-> selector_mode, version |-> v,
         age_gap |-> IF IsNum(v.age_at_recording)
                     THEN Num(Abs(v.age_at_recording.v - target_age))
                     ELSE None]

\* age-classification collaborator: classify_age_relation(base_age, target_age)
classify_age_relation(base_age, target_age) ==
    IF target_age > base_age THEN "future"
    ELSE IF target_age < base_age THEN "past"
    ELSE "same"

----------------------------------------------------------------------------
(* alpha = min(years / 40.0, 1.0), reported as round(float(alpha), 2) *)

AlphaYears == 40

RECURSIVE Pow2Mod(_, _)
Pow2Mod(k, n) == IF k = 0 THEN 1 % n ELSE (2 * Pow2Mod(k - 1, n)) % n

\* The double nearest to years/40 for 0 < years < 40 has the 53-bit mantissa
\* round(years * 2^k / 40), k = 52 + j with j the least shift that makes
\* years * 2^j >= 40.  The remainder of years * 2^k modulo 40 says on which
\* side of years/40 the double lies: 0 exact, above 20 greater, below 20 less.
FloatRemainder(years) ==
    LET j == CHOOSE i \in 0..6 :
                 /\ years * (2 ^ i) >= AlphaYears
                 /\ \A h \in 0..(i - 1) : years * (2 ^ h) < AlphaYears
    IN  (years * Pow2Mod(52 + j, AlphaYears)) % AlphaYears

\* alpha without the cap at 40 years
alpha_field_uncapped(years) == (100 * years) \div AlphaYears

\* round(float(alpha), 2) in hundredths: the decimal nearest to the double,
\* an exact tie to the even hundredth.
alpha_field(years) ==
    IF years >= AlphaYears THEN 100
    ELSE IF years = 0 THEN 0
    ELSE LET t == (1000 * years) \div AlphaYears
             q == t \div 10
             r == t % 10
             rem == FloatRemainder(years)
         IN  IF r < 5 THEN q
             ELSE IF r > 5 THEN q + 1
             ELSE IF rem > AlphaYears \div 2 THEN q + 1
             ELSE IF rem > 0 THEN q
             ELSE IF q % 2 = 0 THEN q ELSE q + 1

----------------------------------------------------------------------------
(* decide_playback_mode(user_id, target_age), one step per collaborator call
   or file read *)

Return(d) == [kind |-> "return", value |-> d]
Raise(e) == [kind |-> "raise", value |-> [exc |-> e]]
NoResult == [kind |-> "none", value |-> [exc |-> ""]]

Idle ==
    [pc |-> "idle", target_age |-> 0, vs |-> <<>>, base_version |-> NoVersion,
     base_age |-> None, relation |-> "", base_emb |-> <<>>, result |-> NoResult]

Finish(l, r) == [l EXCEPT !.pc = "done", !.result = r]

\* lines 83-87: versions = user.get_versions(); empty -> NONE
StepGetVersions(l) ==
    LET vs == get_versions
    IN  IF vs = <<>>
        THEN Finish(l, Return([mode |-> "NONE", reason |-> "no_voice_versions"]))
        ELSE [l EXCEPT !.pc = "select", !.vs = vs]

\* lines 89-101: the selector's RECORDED verdict is returned at once
StepSelect(l) ==
    LET selection == select_best_version(l.vs, l.target_age)
    IN  IF selection.mode = "RECORDED"
        THEN Finish(l, Return([mode |-> "RECORDED",
                               version |-> selection.version,
                               reason |-> "real_voice_close_to_target",
                               age_gap |-> selection.age_gap]))
        ELSE [l EXCEPT !.pc = "latest"]

\* lines 103-106: the latest version is the aging anchor
StepLatest(l) ==
    LET base_version == get_latest_version
    IN  IF base_version = NoVersion \/ base_version.embedding_path = NoPath
        THEN Finish(l, Return([mode |-> "NONE",
                               reason |-> "no_embedding_available"]))
        ELSE [l EXCEPT !.pc = "resolve_age", !.base_version = base_version]

\* lines 108-119: the stored age, else the age derived from the date of birth
resolve_base_age(base_version) ==
    IF base_version.age_at_recording # None
    THEN base_version.age_at_recording
    ELSE _calculate_age(date_of_birth,
                        _parse_recorded_date(base_version.recorded_utc))

\* lines 108-135: unresolved age and the same-age request fall back to RECORDED
StepResolveAge(l) ==
    LET base_age == resolve_base_age(l.base_version)
        relation == classify_age_relation(base_age.v, l.target_age)
    IN  IF base_age = None
        THEN Finish(l, Return([mode |-> "RECORDED",
                               version |-> l.base_version,
                               reason |-> "missing_base_age_fallback_recorded"]))
        ELSE IF relation = "same"
        THEN Finish([l EXCEPT !.base_age = base_age, !.relation = relation],
                    Return([mode |-> "RECORDED",
                            version |-> l.base_version,
                            reason |-> "same_age_requested"]))
        ELSE [l EXCEPT !.pc = "load_emb", !.base_age = base_age,
                       !.relation = relation]

\* the embedding load taking a missing file for a usable embedding and going on
StepLoadEmb_late(l) ==
    IF emb_file.t = "corrupt"
    THEN Finish(l, Raise("ValueError"))
    ELSE [l EXCEPT !.pc = "load_deltas",
                   !.base_emb = IF emb_file.t = "absent" THEN <<1>>
                                ELSE emb_file.shape]

\* lines 137-148: np.load of the base embedding; only FileNotFoundError is
\* caught, any other exception of np.load leaves the function
StepLoadEmb(l) ==
    IF emb_file.t = "absent"
    THEN Finish(l, Return([mode |-> "RECORDED",
                           version |-> l.base_version,
                           reason |-> "missing_base_embedding_fallback_recorded",
                           expected_path |-> l.base_version.embedding_path]))
    ELSE IF emb_file.t = "corrupt"
    THEN Finish(l, Raise("ValueError"))
    ELSE [l EXCEPT !.pc = "load_deltas", !.base_emb = emb_file.shape]

\* lines 175-190: the AGED decision
aged_decision(l) ==
    LET years == Abs(l.base_age.v - l.target_age)
    IN  [mode |-> "AGED",
         embedding |-> l.base_emb,
         base_version |-> l.base_version,
         target_age |-> l.target_age,
         alpha |-> alpha_field(years),
         relation |-> l.relation,
         reason |-> "age_delta_applied"]

\* lines 150-190: the age deltas, the delta key, the dimensions, the result
StepLoadDeltas(l) ==
    LET age_deltas == _load_age_deltas
        delta_key == IF l.relation = "future" THEN "children_to_adult"
                     ELSE "adult_to_children"
    IN  IF age_deltas.t = "none" \/ DOMAIN age_deltas.d = {}
        THEN Finish(l, Return([mode |-> "RECORDED",
                               version |-> l.base_version,
                               reason |-> "missing_age_deltas_fallback_recorded",
                               expected_path |-> "embeddings/age_deltas.npy"]))
        ELSE IF delta_key \notin DOMAIN age_deltas.d
        THEN Finish(l, Return([mode |-> "RECORDED",
                               version |-> l.base_version,
                               reason |-> "missing_delta:" \o delta_key]))
        ELSE LET delta == age_deltas.d[delta_key]
             IN  IF delta = <<>> \/ l.base_emb = <<>>
                 THEN Finish(l, Raise("IndexError"))
                 ELSE IF delta[1] # l.base_emb[1]
                 THEN Finish(l, Return(
                          [mode |-> "RECORDED",
                           version |-> l.base_version,
                           reason |-> "delta_dim_mismatch_fallback_recorded",
                           delta_dim |-> delta[1],
                           emb_dim |-> l.base_emb[1]]))
                 ELSE Finish(l, Return(aged_decision(l)))

\* the statement an invocation at l.pc executes next
StepOf(l) ==
    CASE l.pc = "get_versions" -> StepGetVersions(l)
      [] l.pc = "select" -> StepSelect(l)
      [] l.pc = "latest" -> StepLatest(l)
      [] l.pc = "resolve_age" -> StepResolveAge(l)
      [] l.pc = "load_emb" -> StepLoadEmb(l)
      [] l.pc = "load_deltas" -> StepLoadDeltas(l)
      [] OTHER -> l

\* decide_playback_mode run from l to its end with nothing else running
RECURSIVE RunAlone(_)
RunAlone(l) == IF l.pc \in {"done", "idle"} THEN l ELSE RunAlone(StepOf(l))

----------------------------------------------------------------------------
(* Invocations *)

Procs == {1, 2}
Solo == {1}

Targets == {8, 9, 34, 40, 48}

Call(p) ==
    /\ inv[p].pc = "idle"
    /\ \E t \in Targets :
           inv' = [inv EXCEPT ![p] = [Idle EXCEPT !.pc = "get_versions",
                                                  !.target_age = t]]
    /\ UNCHANGED <<envVars, confVars>>

GetVersions(p) ==
    /\ inv[p].pc = "get_versions"
    /\ inv' = [inv EXCEPT ![p] = StepGetVersions(inv[p])]
    /\ UNCHANGED <<envVars, confVars>>

Select(p) ==
    /\ inv[p].pc = "select"
    /\ inv' = [inv EXCEPT ![p] = StepSelect(inv[p])]
    /\ UNCHANGED <<envVars, confVars>>

Latest(p) ==
    /\ inv[p].pc = "latest"
    /\ inv' = [inv EXCEPT ![p] = StepLatest(inv[p])]
    /\ UNCHANGED <<envVars, confVars>>

ResolveAge(p) ==
    /\ inv[p].pc = "resolve_age"
    /\ inv' = [inv EXCEPT ![p] = StepResolveAge(inv[p])]
    /\ UNCHANGED <<envVars, confVars>>

\* the embedding load removing the file it has read
LoadEmb_consume(p) ==
    /\ inv[p].pc = "load_emb"
    /\ inv' = [inv EXCEPT ![p] = StepLoadEmb(inv[p])]
    /\ emb_file' = Absent
    /\ UNCHANGED <<versions, date_of_birth, selector_mode, deltas_file, confVars>>

LoadEmb(p) ==
    /\ inv[p].pc = "load_emb"
    /\ inv' = [inv EXCEPT ![p] = StepLoadEmb(inv[p])]
    /\ UNCHANGED <<envVars, confVars>>

LoadDeltas(p) ==
    /\ inv[p].pc = "load_deltas"
    /\ inv' = [inv EXCEPT ![p] = StepLoadDeltas(inv[p])]
    /\ UNCHANGED <<envVars, confVars>>

Invoke(p) ==
    \/ Call(p)
    \/ GetVersions(p)
    \/ Select(p)
    \/ Latest(p)
    \/ ResolveAge(p)
    \/ LoadEmb(p)
    \/ LoadDeltas(p)

----------------------------------------------------------------------------
(* Environments *)

StoredAges == {Num(8), Num(150), Num(-3)}

RecordedValues ==
    {NoDate, BadDate, Date(2024, 3, 14), Date(2024, 3, 15),
     Date(2024, 2, 20), Date(2024, 4, 10)}

DobValues ==
    {NoDate, BadDate, Date(1990, 3, 15), Date(1903, 3, 15), Date(2024, 3, 15)}

\* the versions a history may end with
LatestVersions(i) ==
    {[id |-> i, embedding_path |-> NoPath, age_at_recording |-> Num(8),
      recorded_utc |-> Date(2024, 3, 14)]}
    \cup {[id |-> i, embedding_path |-> EmbPath, age_at_recording |-> a,
           recorded_utc |-> Date(2024, 3, 14)] : a \in StoredAges}
    \cup {[id |-> i, embedding_path |-> EmbPath, age_at_recording |-> None,
           recorded_utc |-> r] : r \in RecordedValues}

\* an earlier recording of the same user
OldVersion(i) ==
    [id |-> i, embedding_path |-> "versions/embeddings/old.npy",
     age_at_recording |-> Num(5), recorded_utc |-> Date(2021, 6, 1)]

Histories ==
    {<<>>} \cup
    UNION {{[i \in 1..n |-> IF i < n THEN OldVersion(i) ELSE v] :
                v \in LatestVersions(n)} : n \in 1..MaxVersions}

Shapes == {<<>>} \cup {<<n>> : n \in 1..MaxDim}

EmbFiles == {Absent, Corrupt} \cup {Array(s) : s \in Shapes}

DeltaDicts ==
    UNION {[K -> Shapes] : K \in SUBSET DeltaKeys}

DeltaFiles ==
    {[t |-> x, d |-> [k \in {} |-> <<>>]] : x \in {"absent", "corrupt", "notdict"}}
    \cup {[t |-> "dict", d |-> f] : f \in DeltaDicts}

InitConfIdle ==
    /\ cargs = [duration_s |-> None, snr_db |-> None,
                speaker_similarity |-> None, device_match |-> None,
                history_count |-> None]
    /\ cpc = "off"
    /\ cres = NoOutcome

Init ==
    /\ versions \in Histories
    /\ date_of_birth \in DobValues
    /\ selector_mode \in {"RECORDED", "AGED"}
    /\ emb_file \in EmbFiles
    /\ deltas_file \in DeltaFiles
    /\ inv = [p \in Procs |-> Idle]
    /\ InitConfIdle

Next == \E p \in Solo : Invoke(p)

Spec == Init /\ [][Next]_vars

\* the confidence engine alone
InitConf ==
    /\ cargs \in ConfidenceInputs
    /\ cpc = "call"
    /\ cres = NoOutcome
    /\ versions = <<>>
    /\ date_of_birth = NoDate
    /\ selector_mode = "AGED"
    /\ emb_file = Absent
    /\ deltas_file = [t |-> "absent", d |-> [k \in {} |-> <<>>]]
    /\ inv = [p \in Procs |-> Idle]

NextConf == ComputeConfidence

SpecConf == InitConf /\ [][NextConf]_vars

----------------------------------------------------------------------------
(* Concurrent invocations for one user, no ingestion running *)

ConcVersions(i) ==
    {[id |-> i, embedding_path |-> EmbPath, age_at_recording |-> Num(8),
      recorded_utc |-> Date(2024, 3, 14)],
     [id |-> i, embedding_path |-> EmbPath, age_at_recording |-> None,
      recorded_utc |-> Date(2024, 3, 14)]}

ConcHistories ==
    {<<>>} \cup
    UNION {{[i \in 1..n |-> IF i < n THEN OldVersion(i) ELSE v] :
                v \in ConcVersions(n)} : n \in 1..MaxVersions}

ConcDeltaFiles ==
    {[t |-> "absent", d |-> [k \in {} |-> <<>>]]}
    \cup {[t |-> "dict", d |-> [k \in DeltaKeys |-> s]] : s \in Shapes}
    \cup {[t |-> "dict", d |-> [k \in {"adult_to_children"} |-> <<1>>]]}

InitConc ==
    /\ versions \in ConcHistories
    /\ date_of_birth = Date(1990, 3, 15)
    /\ selector_mode \in {"RECORDED", "AGED"}
    /\ emb_file \in EmbFiles
    /\ deltas_file \in ConcDeltaFiles
    /\ inv = [p \in Procs |-> Idle]
    /\ InitConfIdle

NextConc == \E p \in Procs : Invoke(p)

SpecConc == InitConc /\ [][NextConc]_vars

----------------------------------------------------------------------------
(* Properties of decide_playback_mode *)

Done(p) == inv[p].pc = "done"
Returned(p) == Done(p) /\ inv[p].result.kind = "return"
Raised(p) == Done(p) /\ inv[p].result.kind = "raise"
Decision(p) == inv[p].result.value
Aged(p) == Returned(p) /\ Decision(p).mode = "AGED"

LatestOfHistory == versions[Len(versions)]

\* the base age the specification's step 4 resolves, from the environment
SpecBaseAge ==
    LET v == LatestOfHistory
    IN  IF v.age_at_recording # None THEN v.age_at_recording
        ELSE _calculate_age(date_of_birth, _parse_recorded_date(v.recorded_utc))

SpecDeltaKey(t) ==
    IF t > SpecBaseAge.v THEN "children_to_adult" ELSE "adult_to_children"

\* The number of the first step of the specification's algorithm whose
\* condition holds in the environment, for target age t (10: none holds).
FirstStep(t) ==
    IF versions = <<>> THEN 1
    ELSE IF selector_mode = "RECORDED" THEN 2
    ELSE IF LatestOfHistory.embedding_path = NoPath THEN 3
    ELSE IF SpecBaseAge = None THEN 4
    ELSE IF SpecBaseAge.v = t THEN 5
    ELSE IF emb_file.t = "absent" THEN 6
    ELSE IF deltas_file.t # "dict" \/ DOMAIN deltas_file.d = {} THEN 7
    ELSE IF SpecDeltaKey(t) \notin DOMAIN deltas_file.d THEN 8
    ELSE IF deltas_file.d[SpecDeltaKey(t)] # emb_file.shape THEN 9
    ELSE 10

StepModeReason(n, t) ==
    CASE n = 1 -> <<"NONE", "no_voice_versions">>
      [] n = 2 -> <<"RECORDED", "real_voice_close_to_target">>
      [] n = 3 -> <<"NONE", "no_embedding_available">>
      [] n = 4 -> <<"RECORDED", "missing_base_age_fallback_recorded">>
      [] n = 5 -> <<"RECORDED", "same_age_requested">>
      [] n = 6 -> <<"RECORDED", "missing_base_embedding_fallback_recorded">>
      [] n = 7 -> <<"RECORDED", "missing_age_deltas_fallback_recorded">>
      [] n = 8 -> <<"RECORDED", "missing_delta:" \o SpecDeltaKey(t)>>
      [] n = 9 -> <<"RECORDED", "delta_dim_mismatch_fallback_recorded">>
      [] OTHER -> <<"AGED", "age_delta_applied">>

\* C1: a decision decide_playback_mode returns is the decision of the first
\* step, in the order 1-10 of the algorithm, whose condition holds, never that
\* of a later step; the empty-history decision is exactly
\* {mode: NONE, reason: no_voice_versions}; and whenever one of the steps 1-6
\* is the first to apply the call does return that decision.
C1_FirstBranchWins ==
    \A p \in Procs :
        Done(p) =>
            LET n == FirstStep(inv[p].target_age)
            IN  /\ Returned(p) =>
                       <<Decision(p).mode, Decision(p).reason>>
                           = StepModeReason(n, inv[p].target_age)
                /\ n = 1 => Decision(p) = [mode |-> "NONE",
                                           reason |-> "no_voice_versions"]
                /\ n <= 6 => Returned(p)

\* several failure conditions hold at once and the earliest one is reported
C1_Witness ==
    /\ Returned(1)
    /\ Decision(1).reason = "missing_base_age_fallback_recorded"
    /\ emb_file.t = "absent"
    /\ deltas_file.t = "absent"

WellFormedModes == {"NONE", "RECORDED", "AGED"}

\* C2: every call of decide_playback_mode ends by returning a decision whose
\* mode is NONE, RECORDED or AGED, never by an exception, whatever the state
\* of the embedding file and of the age-delta file; and when the embedding or
\* the deltas are unusable the decision reached after the age is resolved is
\* a RECORDED fallback.
C2_NeverFails ==
    \A p \in Procs :
        Done(p) =>
            /\ inv[p].result.kind = "return"
            /\ Decision(p).mode \in WellFormedModes
            /\ FirstStep(inv[p].target_age) \in 6..9 => Decision(p).mode = "RECORDED"

\* the distance in years between the resolved base age and the target age
Years(p) == Abs(inv[p].base_age.v - inv[p].target_age)

\* C7 as stated: the alpha field of every AGED decision is exactly
\* min(|base_age - target_age| / 40, 1.0).
C7_AlphaExact ==
    \A p \in Procs :
        Aged(p) => 40 * Decision(p).alpha = 100 * Min(Years(p), 40)

\* C7 amended: the alpha field of every AGED decision is
\* min(|base_age - target_age| / 40, 1.0) rounded to two decimals: within
\* 0.005 of that value, equal to it when the distance is even, 1.0 for every
\* distance of 40 years or more, 0.8 for base 8 and target 40; the same holds
\* of the field for every distance up to 130 years.
C7_AlphaRounded ==
    \A p \in Procs :
        Aged(p) =>
            /\ Abs(40 * Decision(p).alpha - 100 * Min(Years(p), 40)) <= 20
            /\ Years(p) % 2 = 0 =>
                   40 * Decision(p).alpha = 100 * Min(Years(p), 40)
            /\ Years(p) >= 40 => Decision(p).alpha = 100
            /\ (inv[p].base_age.v = 8 /\ inv[p].target_age = 40) =>
                   Decision(p).alpha = 80
            /\ \A y \in 0..130 :
                   /\ Abs(40 * alpha_field(y) - 100 * Min(y, 40)) <= 20
                   /\ (y % 2 = 0 \/ y >= 40) =>
                          40 * alpha_field(y) = 100 * Min(y, 40)

\* an AGED decision at an odd distance below 40 years, where rounding acts
C7_Witness ==
    /\ Aged(1)
    /\ Years(1) = 1
    /\ Decision(1).alpha = 3

\* the age the claim derives from a date of birth and a recording date
ClaimDerivedAge(dob, rec) ==
    IF dob.t # "ok" \/ rec.t # "ok" THEN None
    ELSE LET before == rec.m < dob.m \/ (rec.m = dob.m /\ rec.d < dob.d)
             a == (rec.y - dob.y) - (IF before THEN 1 ELSE 0)
         IN  IF a \in 0..120 THEN Num(a) ELSE None

\* C8: _calculate_age gives recording year minus birth year, minus one when
\* the recording's (month, day) precedes the birth (month, day), and None when
\* that is below 0 or above 120 or a date is missing or unparsable (33 for
\* 1990-03-15 / 2024-03-14, 34 for 2024-03-15); decide_playback_mode uses it
\* only when the base version stores no age_at_recording, and returns
\* RECORDED/missing_base_age_fallback_recorded when the age is unresolved.
C8_BaseAgeDerivation ==
    /\ _calculate_age(Date(1990, 3, 15), Date(2024, 3, 14)) = Num(33)
    /\ _calculate_age(Date(1990, 3, 15), Date(2024, 3, 15)) = Num(34)
    /\ \A p \in Procs :
           inv[p].pc \in {"load_emb", "load_deltas", "done"}
             /\ inv[p].base_version # NoVersion =>
               LET bv == inv[p].base_version
                   derived == ClaimDerivedAge(date_of_birth, bv.recorded_utc)
                   expected == IF bv.age_at_recording # None
                               THEN bv.age_at_recording ELSE derived
               IN  IF expected = None
                   THEN inv[p].result =
                            Return([mode |-> "RECORDED", version |-> bv,
                                    reason |-> "missing_base_age_fallback_recorded"])
                   ELSE inv[p].base_age = expected

\* the age 33 derived for a recording made the day before the birthday
C8_Witness ==
    /\ inv[1].pc = "done"
    /\ inv[1].base_version.age_at_recording = None
    /\ date_of_birth = Date(1990, 3, 15)
    /\ inv[1].base_version.recorded_utc = Date(2024, 3, 14)
    /\ inv[1].base_age = Num(33)

\* C10: whenever decide_playback_mode returns AGED, the base age it computed
\* relation and alpha from is an integer in [0,120], stored or derived; a
\* stored age_at_recording outside [0,120] never leads to AGED.
C10_TrustedBaseAge ==
    \A p \in Procs :
        Aged(p) =>
            /\ inv[p].base_age.v \in 0..120
            /\ Decision(p).base_version.age_at_recording # None =>
                   Decision(p).base_version.age_at_recording.v \in 0..120

\* the first step of invocation p, before it has read anything
Started(p) == [Idle EXCEPT !.pc = "get_versions", !.target_age = inv[p].target_age]

\* C9: no step of decide_playback_mode changes the version history, the user
\* record, the selector's verdict, the embedding file or the age-delta file;
\* and with invocations interleaved in any way, each finished invocation holds
\* the decision it reaches when run alone on that state.
C9_ReadOnlyIndependent ==
    /\ [][envVars' = envVars]_vars
    /\ [](\A p \in Procs : Done(p) => inv[p].result = RunAlone(Started(p)).result)

\* one invocation has finished while another one is halfway through
C9_Witness ==
    /\ Aged(1)
    /\ inv[2].pc = "load_emb"
    /\ inv[2].target_age # inv[1].target_age

----------------------------------------------------------------------------
(* Properties of compute_confidence *)

ConfDone == cpc = "done"

\* C3: compute_confidence returns a number and never raises, for every
\* combination of inputs, None and non-numeric values included.
C3_Total == ConfDone => cres.status = "ok"

\* the arguments C4 speaks of: a numeric duration, an integer history count,
\* the other three a number or None
C4_Domain(a) ==
    /\ a.duration_s.t = "num"
    /\ a.snr_db.t \in {"num", "none"}
    /\ a.speaker_similarity.t \in {"num", "none"}
    /\ a.device_match.t \in {"num", "none"}
    /\ a.history_count.t = "num"

\* 0.30*speaker + 0.20*duration + 0.15*snr + 0.15*device + 0.20*history,
\* in millionths
C4_Sum(a) ==
      30 * speaker_score(a.speaker_similarity)
    + 20 * duration_score(a.duration_s)
    + 15 * snr_score(a.snr_db)
    + 15 * device_score(a.device_match)
    + 20 * history_score(a.history_count)

C4_SubScoresInRange(a) ==
    /\ speaker_score(a.speaker_similarity) \in 0..Scale
    /\ duration_score(a.duration_s) \in 0..Scale
    /\ snr_score(a.snr_db) \in 0..Scale
    /\ device_score(a.device_match) \in 0..Scale
    /\ history_score(a.history_count) \in 0..Scale

\* C4 as stated: the value returned lies in [0,1], every sub-score lies in
\* [0,1], and the value equals the weighted sum of the sub-scores.
C4_ExactWeightedSum ==
    (ConfDone /\ C4_Domain(cargs)) =>
        /\ cres.status = "ok"
        /\ cres.value \in 0..1000
        /\ C4_SubScoresInRange(cargs)
        /\ 1000 * cres.value = C4_Sum(cargs)

\* C4 amended: the value returned lies in [0,1], is a whole number of
\* thousandths, every sub-score lies in [0,1], and the value is the weighted
\* sum of the sub-scores rounded to 3 decimals (within 0.0005 of the sum).
C4_RoundedWeightedSum ==
    (ConfDone /\ C4_Domain(cargs)) =>
        /\ cres.status = "ok"
        /\ cres.value \in 0..1000
        /\ C4_SubScoresInRange(cargs)
        /\ Abs(1000 * cres.value - C4_Sum(cargs)) <= 500

\* a call whose weighted sum has more than 3 decimals
C4_Witness ==
    /\ ConfDone
    /\ C4_Domain(cargs)
    /\ cres.status = "ok"
    /\ C4_Sum(cargs) % 1000 # 0
    /\ cargs.snr_db = Num(1000)
    /\ cargs.speaker_similarity = None

NumbersOf(S) == {x \in S : IsNum(x)}

\* C5: with the other inputs fixed, a larger speaker_similarity never gives a
\* smaller result, and a larger history_count never gives a smaller result,
\* counts below 0 and above 3 included.
C5_Monotone ==
    (ConfDone /\ cres.status = "ok") =>
        /\ IsNum(cargs.speaker_similarity) =>
               \A s \in NumbersOf(SimilarityValues) :
                   s.v >= cargs.speaker_similarity.v =>
                       compute_confidence(
                           [cargs EXCEPT !.speaker_similarity = s]).value
                           >= cres.value
        /\ \A h \in NumbersOf(HistoryValues) :
               h.v >= cargs.history_count.v =>
                   compute_confidence([cargs EXCEPT !.history_count = h]).value
                       >= cres.value

\* a call with a negative history count and a similarity below the largest
C5_Witness ==
    /\ ConfDone
    /\ cres.status = "ok"
    /\ cargs.history_count = Num(-1)
    /\ cargs.speaker_similarity = Num(4900)
    /\ compute_confidence([cargs EXCEPT !.history_count = Num(3)]).value
           > cres.value

\* C6: with the other inputs fixed, speaker_similarity = None gives a strictly
\* lower result than any present value >= 0.5, and so does device_match =
\* None; clamping and rounding never erase the difference.
C6_MissingStrictlyLower ==
    (ConfDone /\ cres.status = "ok") =>
        /\ cargs.speaker_similarity = None =>
               \A s \in NumbersOf(SimilarityValues) :
                   s.v >= 5000 =>
                       compute_confidence(
                           [cargs EXCEPT !.speaker_similarity = s]).value
                           > cres.value
        /\ cargs.device_match = None =>
               \A d \in NumbersOf(DeviceValues) :
                   d.v >= 5000 =>
                       compute_confidence(
                           [cargs EXCEPT !.device_match = d]).value
                           > cres.value

\* a call with both optional identity signals missing and everything else at
\* its best
C6_Witness ==
    /\ ConfDone
    /\ cres.status = "ok"
    /\ cargs.speaker_similarity = None
    /\ cargs.device_match = None
    /\ duration_score(cargs.duration_s) = Scale
    /\ cargs.history_count = Num(3)

====
